---- MODULE Spec2Model ----
(***************************************************************************)
(* Federated retrieval and centroid personalization of harvey_backend:     *)
(*   app/core/rag_bridge.py          RagBridge (search, RRF, fusion)       *)
(*   app/core/personalization.py     CentroidPersonalizer (cache, blend)   *)
(*   scripts/calculate_centroids.py  CentroidCalculator (builder)          *)
(*                                                                         *)
(* Numbers.  Vector components and alpha are fixed-point integers in units *)
(* of 1/Scale (1.0 is Scale); a division by a norm is rounded toward zero  *)
(* to that grid, so "unit-norm" is a norm within UnitTol grid steps of     *)
(* Scale.  Scores (RRF terms, external scores) are exact rationals [n, d]. *)
(* Python dicts are functions whose DOMAIN is the set of keys present.     *)
(***************************************************************************)
EXTENDS Integers, Sequences, FiniteSets, TLC

VARIABLES
    redis,      \* the Redis keyspace: key -> [data, ttl, by]
    cache,      \* CentroidPersonalizer._centroid_cache: cache_key -> entry
    now,        \* datetime.now().timestamp(), in seconds
    last,       \* the last call made: its arguments and what it returned
    tasks       \* the calls in flight: task -> its position and what it holds

vars == <<redis, cache, now, last, tasks>>

----------------------------------------------------------------------------
(* Bounds of the model *)

Scale == 100
UnitTol == 2
TickStep == 300
MaxTime == 300
MaxList == 2
MaxExternal == 2
\* the clock of the cache specification: its step and its last value
CacheTick == 150
MaxCacheTime == 450
\* the number of concurrent lookups, and of concurrent builder runs
MaxTasks == 3
\* the longest query, in words, given to infer_query_tag
MaxWords == 3
\* the scenario of a slow embedding call: the caller's deadline, the time the
\* call takes, and the deadline of a caller that sets none
DeadlineMs == 10
SlowEmbeddingMs == 50
DefaultDeadlineMs == 2000

\* Python's None where a list, a vector or bytes is expected; an absent
\* optional number is <<>> and a present one <<x>>; an absent string is ""
None == <<>>
Idle == [op |-> "idle"]
EmptyDict == [key \in {} |-> None]

----------------------------------------------------------------------------
(* Arithmetic *)

Abs(x) == IF x < 0 THEN -x ELSE x
Sign(x) == IF x < 0 THEN -1 ELSE IF x > 0 THEN 1 ELSE 0
Min(a, b) == IF a <= b THEN a ELSE b
Max(a, b) == IF a >= b THEN a ELSE b

RECURSIVE ISqrtIn(_, _, _)
ISqrtIn(n, lo, hi) ==
    IF lo >= hi THEN lo
    ELSE LET mid == (lo + hi + 1) \div 2
         IN  IF mid * mid <= n THEN ISqrtIn(n, mid, hi)
                               ELSE ISqrtIn(n, lo, mid - 1)

\* floor of the square root
ISqrt(n) == ISqrtIn(n, 0, Min(n, 46340))

RECURSIVE Gcd(_, _)
Gcd(a, b) == IF b = 0 THEN a ELSE Gcd(b, a % b)

\* exact rationals, kept in lowest terms with a positive denominator
Rat(n, d) ==
    LET g == Gcd(Abs(n), d)
    IN  [n |-> n \div g, d |-> d \div g]
RZero == [n |-> 0, d |-> 1]
RAdd(a, b) == Rat(a.n * b.d + b.n * a.d, a.d * b.d)
RSub(a, b) == Rat(a.n * b.d - b.n * a.d, a.d * b.d)
RMul(a, b) == Rat(a.n * b.n, a.d * b.d)
RLess(a, b) == a.n * b.d < b.n * a.d
RMax(a, b) == IF RLess(a, b) THEN b ELSE a

----------------------------------------------------------------------------
(* numpy on fixed-point vectors *)

Dot(u, v) == u[1] * v[1] + u[2] * v[2]
VecAdd(u, v) == <<u[1] + v[1], u[2] + v[2]>>
\* alpha * v, alpha in units of 1/Scale
VecScale(alpha, v) ==
    <<Sign(v[1]) * ((alpha * Abs(v[1])) \div Scale),
      Sign(v[2]) * ((alpha * Abs(v[2])) \div Scale)>>

\* np.linalg.norm
LinalgNorm(v) == ISqrt(Dot(v, v))

\* v / np.linalg.norm(v), each component rounded toward zero
DivByNorm(v) ==
    LET n2 == Dot(v, v)
        Comp(x) == Sign(x) * ISqrt((x * x * Scale * Scale) \div n2)
    IN  <<Comp(v[1]), Comp(v[2])>>

RECURSIVE VecSum(_)
VecSum(vectors) ==
    IF vectors = <<>> THEN <<0, 0>>
    ELSE VecAdd(Head(vectors), VecSum(Tail(vectors)))

\* np.mean(vectors, axis=0)
NpMean(vectors) ==
    LET s == VecSum(vectors)
        n == Len(vectors)
    IN  <<Sign(s[1]) * (Abs(s[1]) \div n), Sign(s[2]) * (Abs(s[2]) \div n)>>

IsUnitNorm(v) == Abs(LinalgNorm(v) - Scale) <= UnitTol

E1 == <<Scale, 0>>
E2 == <<0, Scale>>
Neg(v) == <<-v[1], -v[2]>>

----------------------------------------------------------------------------
(* Redis keys and the centroid store *)

\* f"centroid:{tenant_id}:{tag}"
RedisKey(tenant_id, tag) == "centroid:" \o tenant_id \o ":" \o tag
\* f"centroid_meta:{tenant_id}:{tag}"
MetadataKey(tenant_id, tag) == "centroid_meta:" \o tenant_id \o ":" \o tag
\* f"{tenant_id}:{tag}"
CacheKey(tenant_id, tag) == tenant_id \o ":" \o tag

\* 7 * 24 * 3600
CentroidTTL == 604800
\* self._cache_ttl
CacheTTL == 300

\* redis_client.get(key)
RedisGet(r, key) == IF key \in DOMAIN r THEN r[key].data ELSE None
\* redis_client.setex(key, ttl, data); "by" remembers the pair that wrote it
RedisSetex(r, key, ttl, data, by) ==
    (key :> [data |-> data, ttl |-> ttl, by |-> by]) @@ r

\* centroid.astype(np.float32).tobytes(): the components, in order
ToBytes(centroid) == [i \in 1..Len(centroid) |-> centroid[i]]
\* np.frombuffer(centroid_bytes, dtype=np.float32)
FromBuffer(bytes) == [i \in 1..Len(bytes) |-> bytes[i]]

----------------------------------------------------------------------------
(* CentroidCalculator *)

\* settings.min_vectors_for_centroid
MinVectorsForCentroid == 10

\* get_tenant_tags: the default tag list
TenantTags ==
    <<"contratos_imobiliarios", "litigios_tributarios", "direito_trabalhista",
      "direito_civil", "direito_penal", "direito_empresarial">>

calculate_centroid(vectors) ==
    IF vectors = <<>> THEN None
    ELSE LET centroid == NpMean(vectors)
             norm == LinalgNorm(centroid)
         IN  IF norm > 0 THEN DivByNorm(centroid) ELSE centroid

\* store_centroid; fail says which setex raises: "none", "first", "second"
store_centroid(r, tenant_id, tag, centroid, fail, t) ==
    LET key == RedisKey(tenant_id, tag)
        by == <<tenant_id, tag>>
        r1 == RedisSetex(r, key, CentroidTTL, ToBytes(centroid), by)
        metadata_key == MetadataKey(tenant_id, tag)
        metadata == [updated_at |-> t,
                     dimension |-> Len(centroid),
                     norm |-> LinalgNorm(centroid)]
        r2 == RedisSetex(r1, metadata_key, CentroidTTL, metadata, by)
    IN  IF fail = "first" THEN [redis |-> r, ok |-> FALSE]
        ELSE IF fail = "second" THEN [redis |-> r1, ok |-> FALSE]
        ELSE [redis |-> r2, ok |-> TRUE]

\* the body of the loop of calculate_and_store_centroids, for one tag
BuildTag(st, tenant_id, tag, vectors, fail, t) ==
    IF vectors = <<>>
    THEN [redis |-> st.redis, results |-> (tag :> FALSE) @@ st.results]
    ELSE LET centroid == calculate_centroid(vectors)
         IN  IF centroid = None
             THEN [redis |-> st.redis, results |-> (tag :> FALSE) @@ st.results]
             ELSE LET w == store_centroid(st.redis, tenant_id, tag, centroid, fail, t)
                  IN  [redis |-> w.redis, results |-> (tag :> w.ok) @@ st.results]

RECURSIVE BuildTags(_, _, _, _, _, _)
BuildTags(st, tenant_id, tags, index, fails, t) ==
    IF tags = <<>> THEN st
    ELSE BuildTags(BuildTag(st, tenant_id, Head(tags), index[Head(tags)],
                            fails[Head(tags)], t),
                   tenant_id, Tail(tags), index, fails, t)

\* calculate_and_store_centroids(tenant_id): index[tag] is what
\* get_vectors_for_tag returns for the tag
calculate_and_store_centroids(r, tenant_id, tags, index, fails, t) ==
    BuildTags([redis |-> r, results |-> EmptyDict], tenant_id, tags, index, fails, t)

----------------------------------------------------------------------------
(* CentroidPersonalizer *)

\* get_centroid changed to fall back on an expired cache entry when the
\* store gives nothing
get_centroid_serving_stale(c, r, tenant_id, tag, t, up) ==
    LET cache_key == CacheKey(tenant_id, tag)
        redis_key == RedisKey(tenant_id, tag)
    IN  IF cache_key \in DOMAIN c
        THEN [centroid |-> c[cache_key].centroid, by |-> c[cache_key].by,
              cache |-> c, read |-> FALSE]
        ELSE IF ~up \/ redis_key \notin DOMAIN r
        THEN [centroid |-> None, by |-> None, cache |-> c, read |-> TRUE]
        ELSE [centroid |-> FromBuffer(r[redis_key].data), by |-> r[redis_key].by,
              cache |-> (cache_key :> [centroid |-> FromBuffer(r[redis_key].data),
                                       timestamp |-> t, by |-> r[redis_key].by]) @@ c,
              read |-> TRUE]

\* get_centroid changed to serve an entry that is exactly _cache_ttl old
get_centroid_ttl_inclusive(c, r, tenant_id, tag, t, up) ==
    LET cache_key == CacheKey(tenant_id, tag)
        redis_key == RedisKey(tenant_id, tag)
    IN  IF cache_key \in DOMAIN c /\ t - c[cache_key].timestamp <= CacheTTL
        THEN [centroid |-> c[cache_key].centroid, by |-> c[cache_key].by,
              cache |-> c, read |-> FALSE]
        ELSE IF ~up \/ RedisGet(r, redis_key) = None
        THEN [centroid |-> None, by |-> None, cache |-> c, read |-> TRUE]
        ELSE [centroid |-> FromBuffer(RedisGet(r, redis_key)), by |-> r[redis_key].by,
              cache |-> (cache_key :> [centroid |-> FromBuffer(RedisGet(r, redis_key)),
                                       timestamp |-> t, by |-> r[redis_key].by]) @@ c,
              read |-> TRUE]

\* get_centroid; up is FALSE when the Redis read raises
get_centroid(c, r, tenant_id, tag, t, up) ==
    LET cache_key == CacheKey(tenant_id, tag)
        redis_key == RedisKey(tenant_id, tag)
        hit == /\ cache_key \in DOMAIN c
               /\ t - c[cache_key].timestamp < CacheTTL
    IN  IF hit
        THEN [centroid |-> c[cache_key].centroid, by |-> c[cache_key].by,
              cache |-> c, read |-> FALSE]
        ELSE IF ~up
        THEN [centroid |-> None, by |-> None, cache |-> c, read |-> TRUE]
        ELSE LET centroid_bytes == RedisGet(r, redis_key)
             IN  IF centroid_bytes = None
                 THEN [centroid |-> None, by |-> None, cache |-> c, read |-> TRUE]
                 ELSE LET centroid == FromBuffer(centroid_bytes)
                          entry == [centroid |-> centroid, timestamp |-> t,
                                    by |-> r[redis_key].by]
                      IN  [centroid |-> centroid, by |-> r[redis_key].by,
                           cache |-> (cache_key :> entry) @@ c, read |-> TRUE]

\* str.lower() on the words of the model's vocabulary
Lower(w) == IF w = "Casa" THEN "casa" ELSE IF w = "Imposto" THEN "imposto" ELSE w

\* tag_keywords, in declaration order
TagKeywords ==
    << <<"contratos_imobiliarios",
         {"imóvel", "casa", "apartamento", "aluguel", "compra", "venda", "propriedade"}>>,
       <<"litigios_tributarios",
         {"imposto", "tributo", "fisco", "receita", "icms", "ipi", "irpf"}>>,
       <<"direito_trabalhista",
         {"trabalho", "empregado", "salário", "férias", "rescisão", "clt"}>>,
       <<"direito_civil",
         {"civil", "família", "divórcio", "sucessão", "herança", "responsabilidade"}>>,
       <<"direito_penal",
         {"crime", "penal", "processo", "denúncia", "prisão", "sentença"}>>,
       <<"direito_empresarial",
         {"empresa", "societário", "contrato", "negócio", "comercial", "cnpj"}>> >>

\* the keywords that are substrings of a lowercased word of the model's
\* vocabulary (Python's `keyword in word`); no keyword holds a space, so a
\* keyword is in query_lower exactly when it is in one of its words
KeywordsInside(word) ==
    IF word = "casamento" THEN {"casa"}
    ELSE IF word = "impostos" THEN {"imposto"}
    ELSE IF word = "contratos" THEN {"contrato"}
    ELSE IF word = "empresarial" THEN {"empresa"}
    ELSE {word}

\* keyword in query_lower, for a query given as its sequence of words
KeywordIn(keyword, query) ==
    \E i \in 1..Len(query) : keyword \in KeywordsInside(Lower(query[i]))

TagScore(i, query) ==
    Cardinality({kw \in TagKeywords[i][2] : KeywordIn(kw, query)})

\* infer_query_tag: max() returns the first tag with the highest score
infer_query_tag(query) ==
    LET scored == {i \in 1..Len(TagKeywords) : TagScore(i, query) > 0}
        best == CHOOSE i \in scored :
                    \A j \in scored :
                        \/ TagScore(j, query) < TagScore(i, query)
                        \/ (TagScore(j, query) = TagScore(i, query) /\ i <= j)
    IN  IF scored # {} THEN TagKeywords[best][1] ELSE "direito_civil"

\* apply_personalization
apply_personalization(c, r, t, up, query_vector, tenant_id, query, tag, alpha) ==
    LET tg == IF tag = "" /\ query # <<>> THEN infer_query_tag(query)
              ELSE IF tag = "" THEN "direito_civil"
              ELSE tag
        got == get_centroid(c, r, tenant_id, tg, t, up)
    IN  IF got.centroid = None
        THEN [vector |-> query_vector, found |-> FALSE, tag |-> tg,
              centroid |-> None, cache |-> got.cache]
        ELSE LET adjusted_vector == VecAdd(query_vector, VecScale(alpha, got.centroid))
                 norm == LinalgNorm(adjusted_vector)
             IN  [vector |-> IF norm > 0 THEN DivByNorm(adjusted_vector)
                                         ELSE adjusted_vector,
                  found |-> TRUE, tag |-> tg,
                  centroid |-> got.centroid, cache |-> got.cache]

----------------------------------------------------------------------------
(* Python dicts and lists *)

\* d.get(key, default)
Get(d, key, default) == IF key \in DOMAIN d THEN d[key] ELSE default
\* d[key] = val
Put(d, key, val) == (key :> val) @@ d
\* seq[:k]
SliceTo(seq, k) ==
    IF k >= 0 THEN SubSeq(seq, 1, Min(k, Len(seq)))
    ELSE SubSeq(seq, 1, Max(Len(seq) + k, 0))

\* list.sort(key=..., reverse=True) on <<key, item>> pairs: stable, so items
\* with equal keys keep the order they had
RECURSIVE InsertByKey(_, _)
InsertByKey(sorted, p) ==
    IF sorted = <<>> THEN <<p>>
    ELSE IF RLess(Head(sorted)[1], p[1]) THEN <<p>> \o sorted
    ELSE <<Head(sorted)>> \o InsertByKey(Tail(sorted), p)

RECURSIVE SortFold(_, _)
SortFold(sorted, rest) ==
    IF rest = <<>> THEN sorted
    ELSE SortFold(InsertByKey(sorted, Head(rest)), Tail(rest))

SortDesc(items, keys) ==
    LET pairs == [i \in 1..Len(items) |-> <<keys[i], items[i]>>]
        out == SortFold(<<>>, pairs)
    IN  [i \in 1..Len(items) |-> out[i][2]]

\* for i, x in enumerate(items): x[key] = i + 1
Enumerate(items, key) == [i \in 1..Len(items) |-> Put(items[i], key, i)]

----------------------------------------------------------------------------
(* RagBridge: the internal sources *)

\* self.rrf_k
RrfK == 60
\* result.get("semantic_rank", 999)
DefaultRank == 999
\* self.personalization_alpha = 0.25, in units of 1/Scale
DefaultAlpha == Scale \div 4

\* semantic_search changed to number the ranks from 0
semantic_search_zero_based(results, k) ==
    [i \in 1..Min(Len(results), Max(k, 0)) |->
        [id |-> results[i], semantic_rank |-> i - 1, source |-> "semantic"]]

\* semantic_search: results is what Qdrant returned, best first, at most k ids
\* (an exception gives the empty list); score, content and metadata of a hit
\* are payload that no later step reads, RRF ranks by semantic_rank
semantic_search(results, k) ==
    [i \in 1..Min(Len(results), Max(k, 0)) |->
        [id |-> results[i], semantic_rank |-> i, source |-> "semantic"]]

\* lexical_search: the simulated source, min(k, 15) documents of the tenant
lexical_search(tenant_id, k) ==
    [j \in 1..Max(Min(k, 15), 0) |->
        [id |-> "doc_" \o tenant_id \o "_" \o ToString(j - 1),
         score |-> RMax(Rat(1, 10), Rat(10 - (j - 1), 10)),
         lexical_rank |-> j,
         source |-> "lexical"]]

\* a ranked list of ids as the lexical source reports it
LexicalHits(ids) ==
    [j \in 1..Len(ids) |->
        [id |-> ids[j],
         score |-> RMax(Rat(1, 10), Rat(10 - (j - 1), 10)),
         lexical_rank |-> j,
         source |-> "lexical"]]

----------------------------------------------------------------------------
(* RagBridge.reciprocal_rank_fusion *)

\* position of doc_id in all_docs (insertion order), 0 when absent
DocIndex(all_docs, doc_id) ==
    IF \E i \in 1..Len(all_docs) : all_docs[i]["id"] = doc_id
    THEN CHOOSE i \in 1..Len(all_docs) : all_docs[i]["id"] = doc_id
    ELSE 0

\* the loop body changed to assign the contribution instead of adding it
RrfAccumulate_overwriting(all_docs, result, rank_key, source, k) ==
    LET doc_id == result["id"]
        rank == Get(result, rank_key, DefaultRank)
        fresh == Put(Put(result, "rrf_score", RZero), "rank_sources", <<>>)
        docs == IF DocIndex(all_docs, doc_id) = 0 THEN Append(all_docs, fresh)
                ELSE all_docs
        i == DocIndex(docs, doc_id)
        term == Rat(1, k + rank)
        entry == Put(Put(docs[i], "rrf_score", term),
                     "rank_sources",
                     Append(docs[i]["rank_sources"],
                            [source |-> source, rank |-> rank,
                             rrf_contribution |-> term]))
    IN  [docs EXCEPT ![i] = entry]

\* one iteration of either loop of reciprocal_rank_fusion
RrfAccumulate(all_docs, result, rank_key, source, k) ==
    LET doc_id == result["id"]
        rank == Get(result, rank_key, DefaultRank)
        fresh == Put(Put(result, "rrf_score", RZero), "rank_sources", <<>>)
        docs == IF DocIndex(all_docs, doc_id) = 0 THEN Append(all_docs, fresh)
                ELSE all_docs
        i == DocIndex(docs, doc_id)
        term == Rat(1, k + rank)
        entry == Put(Put(docs[i], "rrf_score", RAdd(docs[i]["rrf_score"], term)),
                     "rank_sources",
                     Append(docs[i]["rank_sources"],
                            [source |-> source, rank |-> rank,
                             rrf_contribution |-> term]))
    IN  [docs EXCEPT ![i] = entry]

RECURSIVE RrfLoop(_, _, _, _, _)
RrfLoop(all_docs, results, rank_key, source, k) ==
    IF results = <<>> THEN all_docs
    ELSE RrfLoop(RrfAccumulate(all_docs, Head(results), rank_key, source, k),
                 Tail(results), rank_key, source, k)

reciprocal_rank_fusion(semantic_results, lexical_results, k) ==
    LET sem == RrfLoop(<<>>, semantic_results, "semantic_rank", "semantic", k)
        all_docs == RrfLoop(sem, lexical_results, "lexical_rank", "lexical", k)
        fused_results ==
            SortDesc(all_docs, [i \in 1..Len(all_docs) |-> all_docs[i]["rrf_score"]])
    IN  Enumerate(fused_results, "final_rank")

----------------------------------------------------------------------------
(* RagBridge.process_external_docs *)

\* set(text.lower().split()), for a text given as its sequence of words
Words(text) == {Lower(text[i]) : i \in 1..Len(text)}

\* the loop body of process_external_docs for the doc at 0-based position i;
\* doc["emb"] is what get_query_embedding(text[:1000]) returns for its text
ExternalHit(doc, i, query, query_vector) ==
    LET src_id == Get(doc, "src_id", "external_doc_" \o ToString(i))
        text == Get(doc, "text", <<>>)
        priority == Get(doc, "priority", Rat(9, 10))
        base_score == priority
        position_penalty == Rat(i, 100)
        score0 == RMax(Rat(1, 10), RSub(base_score, position_penalty))
        similarity == Rat(Dot(query_vector, doc["emb"]), Scale * Scale)
        score1 == IF query_vector # None /\ text # <<>>
                  THEN RAdd(RMul(score0, Rat(7, 10)), RMul(similarity, Rat(3, 10)))
                  ELSE score0
        query_words == Words(query)
        doc_words == Words(text)
        text_overlap == IF query_words # {}
                        THEN Rat(Cardinality(query_words \cap doc_words),
                                 Cardinality(query_words))
                        ELSE RZero
        final_score == RAdd(RMul(score1, Rat(8, 10)), RMul(text_overlap, Rat(2, 10)))
    IN  [id |-> src_id,
         score |-> final_score,
         external_rank |-> i + 1,
         content |-> text,
         source |-> "external",
         priority |-> priority,
         text_overlap |-> text_overlap,
         src_id |-> src_id]

\* the hits ranked in the order the documents were given, with no sort
process_external_docs_unsorted(external_docs, query, query_vector) ==
    IF external_docs = <<>> THEN <<>>
    ELSE Enumerate([i \in 1..Len(external_docs) |->
                       ExternalHit(external_docs[i], i - 1, query, query_vector)],
                   "final_external_rank")

process_external_docs(external_docs, query, query_vector) ==
    IF external_docs = <<>> THEN <<>>
    ELSE LET ephemeral_hits ==
                 [i \in 1..Len(external_docs) |->
                     ExternalHit(external_docs[i], i - 1, query, query_vector)]
             sorted ==
                 SortDesc(ephemeral_hits,
                          [i \in 1..Len(ephemeral_hits) |-> ephemeral_hits[i]["score"]])
         IN  Enumerate(sorted, "final_external_rank")

----------------------------------------------------------------------------
(* RagBridge.fuse_internal_and_external *)

get_sort_key(result) ==
    LET base_score == Get(result, "score", RZero)
        rrf_score == Get(result, "rrf_score", RZero)
        effective_score == IF RLess(RZero, rrf_score) THEN rrf_score ELSE base_score
    IN  IF Get(result, "fusion_source", "") = "external"
        THEN RMul(effective_score, Rat(12, 10))
        ELSE effective_score

fuse_internal_and_external(internal_results, external_results) ==
    LET combined_results ==
            [i \in 1..Len(internal_results) |->
                Put(internal_results[i], "fusion_source", "internal")]
            \o [i \in 1..Len(external_results) |->
                Put(external_results[i], "fusion_source", "external")]
        sorted ==
            SortDesc(combined_results,
                     [i \in 1..Len(combined_results) |-> get_sort_key(combined_results[i])])
    IN  [i \in 1..Len(sorted) |->
            Put(Put(sorted[i], "final_rank", i), "fusion_score", get_sort_key(sorted[i]))]

----------------------------------------------------------------------------
(* RagBridge.federated_search *)

\* personalization_alpha or self.personalization_alpha
AlphaOrDefault(personalization_alpha) ==
    IF personalization_alpha = None \/ personalization_alpha[1] = 0
    THEN DefaultAlpha ELSE personalization_alpha[1]

\* all_results: the hits of each source that was asked, by source name
\* failing: the sources whose call raises; the handler of each source
\* (except Exception: return []) turns that into an empty list
SearchSources(req, query_vector, qdrant, failing) ==
    LET k_search == Min(req.k_total * 2, 50)
    IN  (IF req.use_internal_rag
         THEN [s \in {"semantic", "lexical"} |->
                  IF s \in failing THEN <<>>
                  ELSE IF s = "semantic" THEN semantic_search(qdrant, k_search)
                  ELSE lexical_search(req.tenant_id, k_search)]
         ELSE EmptyDict)
        @@ (IF req.external_docs # <<>>
            THEN [s \in {"ephemeral"} |->
                     IF s \in failing THEN <<>>
                     ELSE process_external_docs(req.external_docs, req.query,
                                                query_vector)]
            ELSE EmptyDict)

\* fused_results: a single source is used as it is, several are fused
FuseSources(all_results) ==
    IF Cardinality(DOMAIN all_results) = 1
    THEN all_results[CHOOSE s \in DOMAIN all_results : TRUE]
    ELSE LET semantic_results == Get(all_results, "semantic", <<>>)
             lexical_results == Get(all_results, "lexical", <<>>)
             ephemeral_results == Get(all_results, "ephemeral", <<>>)
             internal_fused ==
                 IF semantic_results # <<>> \/ lexical_results # <<>>
                 THEN reciprocal_rank_fusion(semantic_results, lexical_results, RrfK)
                 ELSE <<>>
         IN  IF ephemeral_results # <<>>
             THEN fuse_internal_and_external(internal_fused, ephemeral_results)
             ELSE internal_fused

SearchMetadata(req, all_results, final_results_count) ==
    [query |-> req.query,
     tenant_id |-> req.tenant_id,
     personalization_enabled |-> req.enable_personalization,
     personalization_alpha |-> AlphaOrDefault(req.personalization_alpha),
     use_internal_rag |-> req.use_internal_rag,
     external_docs_count |-> Len(req.external_docs),
     internal_results_count |-> Len(Get(all_results, "semantic", <<>>))
                                + Len(Get(all_results, "lexical", <<>>)),
     external_results_count |-> Len(Get(all_results, "ephemeral", <<>>)),
     final_results_count |-> final_results_count]

\* final_results, each with the search_metadata
FinalResults(req, all_results, fused_results) ==
    LET final_results == SliceTo(fused_results, req.k_total)
        search_metadata == SearchMetadata(req, all_results, Len(final_results))
    IN  [i \in 1..Len(final_results) |->
            Put(final_results[i], "search_metadata", search_metadata)]

\* The call returns a list on every path (the handler of the outer try returns
\* [] too), so no exception leaves it: raised is "".
\* alpha is the alpha handed to personalize_query_vector, None when it is not
\* called.
\* req: the arguments; embedding: what get_query_embedding returns for the
\* query; qdrant: the ids the vector index returns, best first; up: whether
\* the Redis read of the centroid succeeds; failing: the sources that raise
federated_search(c, r, t, up, req, embedding, qdrant, failing) ==
    IF ~req.use_internal_rag /\ req.external_docs = <<>>
    THEN [returned |-> <<>>, raised |-> "", cache |-> c, sources |-> {},
          personalized |-> FALSE, alpha |-> None]
    ELSE IF req.use_internal_rag /\ req.enable_personalization
    THEN LET p == apply_personalization(c, r, t, up, embedding, req.tenant_id,
                      req.query, "", AlphaOrDefault(req.personalization_alpha))
             all_results == SearchSources(req, p.vector, qdrant, failing)
         IN  [returned |-> FinalResults(req, all_results, FuseSources(all_results)),
              raised |-> "", cache |-> p.cache, sources |-> DOMAIN all_results,
              personalized |-> p.found,
              alpha |-> AlphaOrDefault(req.personalization_alpha)]
    ELSE LET query_vector == IF req.use_internal_rag THEN embedding ELSE None
             all_results == SearchSources(req, query_vector, qdrant, failing)
         IN  [returned |-> FinalResults(req, all_results, FuseSources(all_results)),
              raised |-> "", cache |-> c, sources |-> DOMAIN all_results,
              personalized |-> FALSE, alpha |-> None]

----------------------------------------------------------------------------
(* ExternalDocProcessor.validate_docs (app/models/schema_api.py) *)

\* len(doc.text) > 50000
MaxDocChars == 50000
\* total_characters > 500000
MaxTotalChars == 500000
\* the limit of the request schema on the number of external documents
MaxExternalDocs == 50
\* ExternalDoc.text: min_length
MinDocChars == 10

\* what one iteration of the loop of validate_docs appends for docs[i]: a
\* document is its src_id, the length of its text (chars) and the length of
\* text.strip() (stripped)
DocErrors(docs, i) ==
    (IF docs[i].chars > MaxDocChars
     THEN <<[doc_index |-> i - 1, src_id |-> docs[i].src_id,
             error |-> "Documento excede 50.000 caracteres"]>>
     ELSE <<>>)
    \o (IF docs[i].stripped = 0
        THEN <<[doc_index |-> i - 1, src_id |-> docs[i].src_id,
                error |-> "Documento não pode estar vazio"]>>
        ELSE <<>>)

\* the loop of validate_docs over docs[lo..hi], in index order (split in
\* halves to keep the recursion shallow)
RECURSIVE ValidateLoop(_, _, _)
ValidateLoop(docs, lo, hi) ==
    IF lo > hi THEN [validation_errors |-> <<>>, total_characters |-> 0]
    ELSE IF lo = hi
    THEN [validation_errors |-> DocErrors(docs, lo),
          total_characters |-> docs[lo].chars]
    ELSE LET mid == (lo + hi) \div 2
             left == ValidateLoop(docs, lo, mid)
             right == ValidateLoop(docs, mid + 1, hi)
         IN  [validation_errors |-> left.validation_errors \o right.validation_errors,
              total_characters |-> left.total_characters + right.total_characters]

validate_docs(docs) ==
    LET looped == ValidateLoop(docs, 1, Len(docs))
        validation_errors ==
            looped.validation_errors
            \o (IF looped.total_characters > MaxTotalChars
                THEN <<[error |->
                    "Total de caracteres excede 500.000 (limite por requisição)"]>>
                ELSE <<>>)
    IN  [valid |-> Len(validation_errors) = 0,
         total_docs |-> Len(docs),
         total_characters |-> looped.total_characters,
         validation_errors |-> validation_errors,
         \* len(" ".join(texts)) // 4
         estimated_tokens |->
             (looped.total_characters + Max(Len(docs) - 1, 0)) \div 4]

----------------------------------------------------------------------------
(* Inputs *)

Tenants == {"a", "a:b"}
\* tags a caller may name; the second holds the separator of the key format
CallerTags == {"direito_civil", "b:direito_civil"}

QueryVectors == {E2, Neg(E1)}
Alphas == {0, Scale}

\* sequences over S without repetition, of length at most n
RECURSIVE InjSeqs(_, _)
InjSeqs(S, n) ==
    IF n = 0 THEN {<<>>}
    ELSE LET shorter == InjSeqs(S, n - 1)
         IN  shorter \cup
             {Append(q, x) : q \in {r \in shorter : Len(r) = n - 1}, x \in S}
InjectiveSeqs(S, n) ==
    {q \in InjSeqs(S, n) : \A i, j \in 1..Len(q) : i # j => q[i] # q[j]}

----------------------------------------------------------------------------
(* The state machine *)

Init ==
    /\ redis = EmptyDict
    /\ cache = EmptyDict
    /\ now = 0
    /\ tasks = EmptyDict
    /\ last = Idle

\* time passes
Tick ==
    /\ now + TickStep <= MaxTime
    /\ now' = now + TickStep
    /\ last' = Idle
    /\ UNCHANGED <<redis, cache, tasks>>

\* CentroidCalculator.calculate_and_store_centroids(tenant_id)
Build(tenant_id, index, fails) ==
    LET b == calculate_and_store_centroids(redis, tenant_id, TenantTags, index, fails, now)
    IN  /\ redis' = b.redis
        /\ last' = [op |-> "calculate_and_store_centroids", tenant_id |-> tenant_id,
                    index |-> index, results |-> b.results]
        /\ UNCHANGED <<cache, now, tasks>>

\* CentroidPersonalizer.get_centroid(tenant_id, tag)
GetCentroid(tenant_id, tag, up) ==
    LET g == get_centroid(cache, redis, tenant_id, tag, now, up)
    IN  /\ cache' = g.cache
        /\ last' = [op |-> "get_centroid", tenant_id |-> tenant_id, tag |-> tag,
                    centroid |-> g.centroid, by |-> g.by, read |-> g.read, up |-> up,
                    cached |-> IF CacheKey(tenant_id, tag) \in DOMAIN cache
                               THEN cache[CacheKey(tenant_id, tag)].centroid
                               ELSE None,
                    expired |-> /\ CacheKey(tenant_id, tag) \in DOMAIN cache
                                /\ now - cache[CacheKey(tenant_id, tag)].timestamp
                                       >= CacheTTL,
                    after_clear |-> last.op = "clear_cache"]
        /\ UNCHANGED <<redis, now, tasks>>

\* CentroidPersonalizer.apply_personalization(query_vector, tenant_id, query, tag, alpha)
ApplyPersonalization(query_vector, tenant_id, query, tag, alpha, up) ==
    LET p == apply_personalization(cache, redis, now, up, query_vector, tenant_id,
                                   query, tag, alpha)
    IN  /\ cache' = p.cache
        /\ last' = [op |-> "apply_personalization", query_vector |-> query_vector,
                    tenant_id |-> tenant_id, tag |-> p.tag, alpha |-> alpha,
                    found |-> p.found, centroid |-> p.centroid,
                    vector |-> p.vector, up |-> up,
                    after_clear |-> last.op = "clear_cache"]
        /\ UNCHANGED <<redis, now, tasks>>

\* clear_cache changed to leave the entries in place
ClearCache_keeping_entries ==
    /\ cache' = cache
    /\ last' = [op |-> "clear_cache"]
    /\ UNCHANGED <<redis, now, tasks>>

\* CentroidPersonalizer.clear_cache()
ClearCache ==
    /\ cache' = EmptyDict
    /\ last' = [op |-> "clear_cache"]
    /\ UNCHANGED <<redis, now, tasks>>

\* every call of the request succeeds at once; deadline_ms is the time the
\* caller allows for the request, which no argument of federated_search carries
NoFaults ==
    [embedding |-> FALSE, sources |-> {}, embedding_ms |-> 0,
     deadline_ms |-> DefaultDeadlineMs]

\* execution_time_ms: the time between start_time and the end of the call,
\* here the time the embedding call takes when it is made
ExecutionTimeMs(req, faults) ==
    IF req.use_internal_rag THEN faults.embedding_ms ELSE 0

\* RagBridge.federated_search(...)
\* faults.embedding: embed_query raises, and embedding is then the random
\* normalized vector get_query_embedding falls back on; faults.sources: the
\* sources whose call raises
FederatedSearch(req, embedding, qdrant, up, faults) ==
    LET f == federated_search(cache, redis, now, up, req, embedding, qdrant,
                              faults.sources)
    IN  /\ cache' = f.cache
        /\ last' = [op |-> "federated_search", req |-> req, returned |-> f.returned,
                    raised |-> f.raised, sources |-> f.sources, personalized |-> f.personalized,
                    alpha |-> f.alpha,
                    faults |-> faults,
                    execution_time_ms |-> ExecutionTimeMs(req, faults),
                    after_clear |-> last.op = "clear_cache"]
        /\ UNCHANGED <<redis, now, tasks>>

----------------------------------------------------------------------------
(* Spec: the centroid store, the builder and the readers *)

\* builds of the main specification: no store failure, and vectors only
\* under the tag direito_civil
SpecIndexes ==
    {[tag \in {TenantTags[i] : i \in 1..Len(TenantTags)} |->
         IF tag = "direito_civil" THEN vectors ELSE <<>>] :
        vectors \in {<<>>, <<E1>>, <<E1, Neg(E1)>>}}
NoFails == [tag \in {TenantTags[i] : i \in 1..Len(TenantTags)} |-> "none"]

SpecRequests ==
    {[query |-> <<"x">>, tenant_id |-> t, k_total |-> 1,
      personalization_alpha |-> a, enable_personalization |-> TRUE,
      external_docs |-> <<>>, use_internal_rag |-> TRUE] :
        t \in {"a"}, a \in {None, <<Scale>>}}

Next ==
    \/ Tick
    \/ \E t \in Tenants, ix \in SpecIndexes : Build(t, ix, NoFails)
    \/ \E t \in Tenants, g \in CallerTags, up \in BOOLEAN : GetCentroid(t, g, up)
    \/ \E q \in QueryVectors, a \in Alphas, up \in BOOLEAN :
           ApplyPersonalization(q, "a", <<>>, "", a, up)
    \/ ClearCache
    \/ \E req \in SpecRequests : FederatedSearch(req, E2, <<>>, TRUE, NoFaults)

Spec == Init /\ [][Next]_vars

----------------------------------------------------------------------------
(* SpecFusion: reciprocal_rank_fusion on every pair of ranked lists *)

DocIds == {"A", "B", "C"}
RankedLists == InjectiveSeqs(DocIds, MaxList)

InitFusion ==
    /\ redis = EmptyDict
    /\ cache = EmptyDict
    /\ now = 0
    /\ tasks = EmptyDict
    /\ last \in {[op |-> "lists", vector |-> l1, lexical |-> l2] :
                    l1 \in RankedLists, l2 \in RankedLists}

\* the fusion of the list the vector source returned with the lexical one
Fusion(l1, l2) ==
    reciprocal_rank_fusion(semantic_search(l1, Len(l1)), LexicalHits(l2), RrfK)

Fuse ==
    /\ last.op = "lists"
    /\ last' = [op |-> "reciprocal_rank_fusion", vector |-> last.vector,
                lexical |-> last.lexical,
                fused |-> Fusion(last.vector, last.lexical)]
    /\ UNCHANGED <<redis, cache, now, tasks>>

\* the same two lists with the sources exchanged
FuseSwapped ==
    /\ last.op = "reciprocal_rank_fusion"
    /\ last' = [op |-> "both_orders", vector |-> last.vector,
                lexical |-> last.lexical, fused |-> last.fused,
                swapped |-> Fusion(last.lexical, last.vector)]
    /\ UNCHANGED <<redis, cache, now, tasks>>

NextFusion == Fuse \/ FuseSwapped

SpecFusion == InitFusion /\ [][NextFusion]_vars

----------------------------------------------------------------------------
(* SpecSearch: federated_search over requests and source replies *)

ExternalDocs ==
    {[src_id |-> "b", text |-> <<"y">>, priority |-> Rat(5, 100), emb |-> E1],
     [src_id |-> "a", text |-> <<"y">>, priority |-> Rat(2, 100), emb |-> E1],
     [src_id |-> "c", text |-> <<"x">>, priority |-> Rat(9, 10), emb |-> E2]}
KTotals == {0, 1, 2, 3}
QdrantIds == {"doc_a_0", "doc_a_1", "A"}

SearchRequests ==
    {[query |-> <<"x">>, tenant_id |-> "a", k_total |-> k,
      personalization_alpha |-> None, enable_personalization |-> TRUE,
      external_docs |-> ext, use_internal_rag |-> ui] :
        k \in KTotals, ext \in InjectiveSeqs(ExternalDocs, MaxExternal),
        ui \in BOOLEAN}

\* a request and the reply the vector index will give to it
InitSearch ==
    /\ redis = EmptyDict
    /\ cache = EmptyDict
    /\ now = 0
    /\ tasks = EmptyDict
    /\ last \in {[op |-> "request", req |-> req, qdrant |-> qdrant] :
                    req \in SearchRequests,
                    qdrant \in InjectiveSeqs(QdrantIds, MaxList)}

Search ==
    /\ last.op = "request"
    /\ FederatedSearch(last.req, E2, last.qdrant, TRUE, NoFaults)

NextSearch == Search

SpecSearch == InitSearch /\ [][NextSearch]_vars

----------------------------------------------------------------------------
(* SpecValidate: validate_docs over batches of external documents *)

\* a batch of count documents of base characters each, the last one longer
\* by extra (never past the schema's limit on one text); with dup the second
\* document repeats the src_id of the first
Batch(count, base, extra, dup) ==
    [i \in 1..count |->
        LET chars == IF i = count THEN Min(base + extra, MaxDocChars) ELSE base
        IN  [src_id |-> IF dup /\ i = 2 THEN "doc1" ELSE "doc" \o ToString(i),
             chars |-> chars, stripped |-> chars]]

BatchCounts ==
    {0, 1, 2, 3, MaxExternalDocs - 1, MaxExternalDocs, MaxExternalDocs + 1}
BatchChars == {MinDocChars, MaxTotalChars \div MaxExternalDocs, MaxDocChars}

InitValidate ==
    /\ redis = EmptyDict
    /\ cache = EmptyDict
    /\ now = 0
    /\ tasks = EmptyDict
    /\ last \in {[op |-> "batch", count |-> n, dup |-> dup,
                   docs |-> Batch(n, base, extra, dup)] :
                     n \in BatchCounts, base \in BatchChars,
                     extra \in {0, 1, 2}, dup \in BOOLEAN}

\* ExternalDocProcessor.validate_docs(docs)
ValidateDocs ==
    /\ last.op = "batch"
    /\ last' = [op |-> "validate_docs", docs |-> last.docs,
                response |-> validate_docs(last.docs)]
    /\ UNCHANGED <<redis, cache, now, tasks>>

NextValidate == ValidateDocs

SpecValidate == InitValidate /\ [][NextValidate]_vars

----------------------------------------------------------------------------
(* SpecWorkflow: the paths that carry external documents to the search *)

\* a request with a batch of external documents, sent to the test-search
\* endpoint or to the workflow
InitWorkflow ==
    /\ redis = EmptyDict
    /\ cache = EmptyDict
    /\ now = 0
    /\ tasks = EmptyDict
    /\ last \in {[op |-> "submit", path |-> path,
                   docs |-> Batch(n, base, extra, FALSE)] :
                     path \in {"test_search", "workflow"},
                     n \in BatchCounts, base \in BatchChars, extra \in {0, 1, 2}}

\* test_search_with_external_context: an invalid batch raises HTTP 400,
\* a valid one goes to federated_search (searched)
TestSearchWithExternalContext ==
    /\ last.op = "submit"
    /\ last.path = "test_search"
    /\ LET validation_result == validate_docs(last.docs)
       IN  last' = [op |-> "test_search", docs |-> last.docs,
                    raised |-> IF validation_result.valid THEN "" ELSE "HTTP 400",
                    searched |-> validation_result.valid]
    /\ UNCHANGED <<redis, cache, now, tasks>>

\* HarveyToolsWorkflow._validate_external_context: the node records the
\* result of context_validator_node and adds its errors to the messages
ValidateExternalContext ==
    /\ last.op = "submit"
    /\ last.path = "workflow"
    /\ LET validation_result == validate_docs(last.docs)
       IN  last' = [op |-> "validate_external_context", docs |-> last.docs,
                    error_messages |->
                        IF last.docs # <<>> /\ ~validation_result.valid
                        THEN <<validation_result.validation_errors>>
                        ELSE <<>>]
    /\ UNCHANGED <<redis, cache, now, tasks>>

\* HarveyToolsWorkflow._execute_rag, the node that follows on the only edge
\* out of validate_external_context: rag_node hands the documents to
\* federated_search (searched)
ExecuteRag ==
    /\ last.op = "validate_external_context"
    /\ last' = [op |-> "execute_rag", docs |-> last.docs,
                error_messages |-> last.error_messages,
                raised |-> "", searched |-> TRUE]
    /\ UNCHANGED <<redis, cache, now, tasks>>

NextWorkflow ==
    \/ TestSearchWithExternalContext
    \/ ValidateExternalContext
    \/ ExecuteRag

SpecWorkflow == InitWorkflow /\ [][NextWorkflow]_vars

----------------------------------------------------------------------------
(* SpecFaults: federated_search when calls fail or are slow *)

FaultRequests ==
    {[query |-> <<"x">>, tenant_id |-> "a", k_total |-> 3,
      personalization_alpha |-> None, enable_personalization |-> TRUE,
      external_docs |-> ext, use_internal_rag |-> ui] :
        ext \in {<<>>} \cup {<<d>> : d \in ExternalDocs}, ui \in BOOLEAN}

Faults ==
    [embedding : BOOLEAN,
     sources : SUBSET {"semantic", "lexical", "ephemeral"},
     embedding_ms : {0, SlowEmbeddingMs},
     deadline_ms : {DeadlineMs, DefaultDeadlineMs}]

\* a request, what will fail while it runs, and what the embedding call
\* gives: the embedding of the query, or any normalized vector when it fails
InitFaults ==
    /\ redis = EmptyDict
    /\ cache = EmptyDict
    /\ now = 0
    /\ tasks = EmptyDict
    /\ last \in {[op |-> "request", req |-> req, faults |-> f, embedding |-> e] :
                    req \in FaultRequests, f \in Faults, e \in QueryVectors}
    /\ ~last.faults.embedding => last.embedding = E2

SearchWithFaults ==
    /\ last.op = "request"
    /\ FederatedSearch(last.req, last.embedding, <<"A">>, TRUE, last.faults)

NextFaults == SearchWithFaults

SpecFaults == InitFaults /\ [][NextFaults]_vars

----------------------------------------------------------------------------
(* SpecCache: the cache of one personalizer over several cache lifetimes *)

\* builds that give the pair (a, direito_civil) one of two centroids
CacheIndexes ==
    {[tag \in {TenantTags[i] : i \in 1..Len(TenantTags)} |->
         IF tag = "direito_civil" THEN <<v>>
         ELSE IF tag = "direito_penal" THEN <<E2>>
         ELSE <<>>] : v \in {E1, E2}}

TickCache ==
    /\ now + CacheTick <= MaxCacheTime
    /\ now' = now + CacheTick
    /\ last' = Idle
    /\ UNCHANGED <<redis, cache, tasks>>

NextCache ==
    \/ TickCache
    \/ \E ix \in CacheIndexes : Build("a", ix, NoFails)
    \/ \E g \in {"direito_civil", "direito_penal"}, up \in BOOLEAN :
           GetCentroid("a", g, up)

SpecCache == Init /\ [][NextCache]_vars

----------------------------------------------------------------------------
(* SpecBuild: builds whose store writes may fail *)

\* per tag, whether the first or the second setex of store_centroid raises
BuildFails ==
    {[tag \in {TenantTags[i] : i \in 1..Len(TenantTags)} |->
         IF tag = "direito_civil" THEN f1
         ELSE IF tag = "direito_penal" THEN f2
         ELSE "none"] : f1, f2 \in {"none", "first", "second"}}

NextBuild ==
    \/ TickCache
    \/ \E ix \in CacheIndexes, fails \in BuildFails : Build("a", ix, fails)

SpecBuild == Init /\ [][NextBuild]_vars

\* builder runs with the store up: the builds of CacheIndexes, and builds that
\* find exactly min_vectors_for_centroid vectors, or one fewer, under
\* direito_civil
BuildIndexes ==
    CacheIndexes \cup
    {[tag \in {TenantTags[i] : i \in 1..Len(TenantTags)} |->
         IF tag = "direito_civil" THEN [i \in 1..n |-> E1] ELSE <<>>] :
        n \in {MinVectorsForCentroid - 1, MinVectorsForCentroid}}

NextRebuild ==
    \/ TickCache
    \/ \E t \in Tenants, ix \in BuildIndexes : Build(t, ix, NoFails)

SpecRebuild == Init /\ [][NextRebuild]_vars

----------------------------------------------------------------------------
(* SpecBuilders: concurrent builder runs, in separate processes, storing the
   centroid of the pair (a, direito_civil) *)

BuilderRuns == 1..MaxTasks

\* every run has computed its centroid and is about to call store_centroid
InitBuilders ==
    /\ redis = EmptyDict
    /\ cache = EmptyDict
    /\ now = 0
    /\ last = Idle
    /\ tasks \in [BuilderRuns ->
                     {[pc |-> "start", centroid |-> calculate_centroid(<<v>>)] :
                         v \in {E1, E2}}]

\* store_centroid up to its first setex: the value key; by remembers the run
SetexValue(i) ==
    /\ tasks[i].pc = "start"
    /\ redis' = RedisSetex(redis, RedisKey("a", "direito_civil"), CentroidTTL,
                           ToBytes(tasks[i].centroid), i)
    /\ tasks' = [tasks EXCEPT ![i].pc = "value_written"]
    /\ UNCHANGED <<cache, now, last>>

\* the second setex of store_centroid: the metadata key
SetexMetadata(i) ==
    /\ tasks[i].pc = "value_written"
    /\ redis' = RedisSetex(redis, MetadataKey("a", "direito_civil"), CentroidTTL,
                           [updated_at |-> now,
                            dimension |-> Len(tasks[i].centroid),
                            norm |-> LinalgNorm(tasks[i].centroid)], i)
    /\ tasks' = [tasks EXCEPT ![i].pc = "done"]
    /\ UNCHANGED <<cache, now, last>>

NextBuilders ==
    \/ \E i \in BuilderRuns : SetexValue(i)
    \/ \E i \in BuilderRuns : SetexMetadata(i)

SpecBuilders == InitBuilders /\ [][NextBuilders]_vars

----------------------------------------------------------------------------
(* SpecLookups: concurrent get_centroid calls on the event loop of one engine *)

LookupTasks == 1..MaxTasks

\* a store filled by one build, an empty cache, and every lookup yet to start
InitLookups ==
    /\ redis \in {calculate_and_store_centroids(EmptyDict, "a", TenantTags, ix,
                                                 NoFails, 0).redis :
                      ix \in CacheIndexes}
    /\ cache = EmptyDict
    /\ now = 0
    /\ last = Idle
    /\ tasks = [i \in LookupTasks |-> [pc |-> "start"]]

\* redis_client.get is a blocking call made inside the coroutine: while it
\* runs, the event loop runs no other coroutine
EventLoopFree == \A i \in DOMAIN tasks : tasks[i].pc # "reading"

\* get_centroid up to the store read: a fresh cache entry is returned at
\* once, otherwise the read is issued
BeginLookupStep(i, tag) ==
    LET g == get_centroid(cache, redis, "a", tag, now, TRUE)
    IN  /\ tasks[i].pc = "start"
        /\ tasks' = [tasks EXCEPT ![i] =
                         IF g.read
                         THEN [pc |-> "reading", tag |-> tag]
                         ELSE [pc |-> "done", tag |-> tag, read |-> FALSE,
                               centroid |-> g.centroid]]
        /\ UNCHANGED <<redis, cache, now, last>>

\* the coroutine is scheduled while another one is inside its store read
BeginLookup_while_reading(i, tag) == BeginLookupStep(i, tag)

BeginLookup(i, tag) ==
    /\ EventLoopFree
    /\ BeginLookupStep(i, tag)

\* the store read returns and get_centroid runs to its end
EndLookup(i, up) ==
    /\ tasks[i].pc = "reading"
    /\ LET g == get_centroid(cache, redis, "a", tasks[i].tag, now, up)
       IN  /\ cache' = g.cache
           /\ tasks' = [tasks EXCEPT ![i] =
                            [pc |-> "done", tag |-> tasks[i].tag, read |-> TRUE,
                             centroid |-> g.centroid]]
    /\ UNCHANGED <<redis, now, last>>

NextLookups ==
    \/ \E i \in LookupTasks, g \in {"direito_civil", "direito_trabalhista"} :
           BeginLookup(i, g)
    \/ \E i \in LookupTasks, up \in BOOLEAN : EndLookup(i, up)

SpecLookups == InitLookups /\ [][NextLookups]_vars

----------------------------------------------------------------------------
(* SpecAlpha: federated_search with a stored centroid and every kind of alpha *)

\* no alpha, zero, one inside the range, and one above it
RequestAlphas == {None, <<0>>, <<Scale \div 2>>, <<Scale + Scale \div 2>>}

AlphaRequests ==
    {[query |-> <<"x">>, tenant_id |-> "a", k_total |-> k,
      personalization_alpha |-> a, enable_personalization |-> TRUE,
      external_docs |-> <<>>, use_internal_rag |-> TRUE] :
        k \in KTotals \ {0}, a \in RequestAlphas}

InitAlpha ==
    /\ redis \in {calculate_and_store_centroids(EmptyDict, "a", TenantTags, ix,
                                                 NoFails, 0).redis :
                      ix \in CacheIndexes}
    /\ cache = EmptyDict
    /\ now = 0
    /\ tasks = EmptyDict
    /\ last \in {[op |-> "request", req |-> req, qdrant |-> qdrant, embedding |-> e] :
                    req \in AlphaRequests,
                    qdrant \in InjectiveSeqs(QdrantIds, MaxList),
                    e \in QueryVectors}

SearchWithAlpha ==
    /\ last.op = "request"
    /\ FederatedSearch(last.req, last.embedding, last.qdrant, TRUE, NoFaults)

NextAlpha == SearchWithAlpha

SpecAlpha == InitAlpha /\ [][NextAlpha]_vars

----------------------------------------------------------------------------
(* SpecInfer: infer_query_tag on every query over a small vocabulary *)

Vocabulary ==
    {"casa", "Casa", "casamento", "imposto", "tributo", "civil", "processo", "x"}

RECURSIVE SeqsUpTo(_, _)
SeqsUpTo(S, n) ==
    IF n = 0 THEN {<<>>}
    ELSE LET shorter == SeqsUpTo(S, n - 1)
         IN  shorter \cup
             {Append(q, x) : q \in {r \in shorter : Len(r) = n - 1}, x \in S}

InitInfer ==
    /\ redis = EmptyDict
    /\ cache = EmptyDict
    /\ now = 0
    /\ tasks = EmptyDict
    /\ last \in {[op |-> "query", query |-> q] : q \in SeqsUpTo(Vocabulary, MaxWords)}

\* CentroidPersonalizer.infer_query_tag(query)
InferQueryTag ==
    /\ last.op = "query"
    /\ last' = [op |-> "infer_query_tag", query |-> last.query,
                tag |-> infer_query_tag(last.query)]
    /\ UNCHANGED <<redis, cache, now, tasks>>

NextInfer == InferQueryTag

SpecInfer == InitInfer /\ [][NextInfer]_vars

----------------------------------------------------------------------------
(* SpecScore: process_external_docs over priorities, overlaps and similarities *)

\* documents of priority 0, 1/2 and 1, sharing a word with the query or not,
\* embedded along the query vector or against it
ScoreDocs ==
    {[src_id |-> "d", text |-> <<w>>, priority |-> Rat(p, 2), emb |-> e] :
        w \in {"x", "y"}, p \in 0..2, e \in {E2, Neg(E2)}}

InitScore ==
    /\ redis = EmptyDict
    /\ cache = EmptyDict
    /\ now = 0
    /\ tasks = EmptyDict
    /\ last \in {[op |-> "docs", external_docs |-> docs, query |-> q,
                   query_vector |-> v] :
                    docs \in SeqsUpTo(ScoreDocs, MaxExternal),
                    q \in {<<>>, <<"x">>}, v \in {None, E2}}

\* RagBridge.process_external_docs(external_docs, query, query_vector)
ProcessExternalDocs ==
    /\ last.op = "docs"
    /\ last' = [op |-> "process_external_docs", query |-> last.query,
                query_vector |-> last.query_vector,
                hits |-> process_external_docs(last.external_docs, last.query,
                                               last.query_vector)]
    /\ UNCHANGED <<redis, cache, now, tasks>>

NextScore == ProcessExternalDocs

SpecScore == InitScore /\ [][NextScore]_vars

----------------------------------------------------------------------------
(* Properties of federated_search *)

\* C1: every hit federated_search returns carries a final_rank, and the
\* final_rank values of the returned hits are exactly 1..|hits|, whichever
\* sources contributed
C1_FinalRankPermutation ==
    last.op = "federated_search" =>
        /\ \A i \in 1..Len(last.returned) : "final_rank" \in DOMAIN last.returned[i]
        /\ {last.returned[i]["final_rank"] : i \in 1..Len(last.returned)}
               = 1..Len(last.returned)

\* C2: a request with no external documents and use_internal_rag false is
\* rejected with the error InvalidArgument
C2_NoSourceRejected ==
    (/\ last.op = "federated_search"
     /\ ~last.req.use_internal_rag
     /\ last.req.external_docs = <<>>)
        => last.raised = "InvalidArgument"

\* C14: a request with k_total below 1 is rejected with the error
\* InvalidArgument and is not answered with a result list (stated for the
\* requests that name a source, which no other argument check stops)
C14_KTotalRejected ==
    (/\ last.op = "federated_search"
     /\ last.req.k_total < 1
     /\ (last.req.use_internal_rag \/ last.req.external_docs # <<>>))
        => last.raised = "InvalidArgument"

\* the sources the request asks
Queried(req) ==
    (IF req.use_internal_rag THEN {"semantic", "lexical"} ELSE {})
    \cup (IF req.external_docs # <<>> THEN {"ephemeral"} ELSE {})

\* C16: a request ends with the error Unavailable exactly when every source
\* it asked failed
C16_UnavailableIffAllFail ==
    (last.op = "federated_search" /\ Queried(last.req) # {})
        => ((last.raised = "Unavailable")
               = (Queried(last.req) \subseteq last.faults.sources))

\* C17: when the embedding of the query fails, the request ends with the
\* error Unavailable and returns no hits
C17_EmbeddingFailureUnavailable ==
    (/\ last.op = "federated_search"
     /\ last.req.use_internal_rag
     /\ last.faults.embedding)
        => /\ last.raised = "Unavailable"
           /\ last.returned = <<>>

\* C18: a request that takes longer than its deadline ends with the error
\* Cancelled and returns no result
C18_DeadlineCancels ==
    (/\ last.op = "federated_search"
     /\ last.execution_time_ms > last.faults.deadline_ms)
        => /\ last.raised = "Cancelled"
           /\ last.returned = <<>>

\* the external hits of the result, in the order they are returned
IsExternal(hit) == Get(hit, "source", "") = "external"
ExternalReturned == SelectSeq(last.returned, IsExternal)

\* the score of hit g comes before the score of hit h: higher first, and for
\* equal scores the document given first
ExternalBefore(g, h) ==
    \/ RLess(h["score"], g["score"])
    \/ /\ ~RLess(g["score"], h["score"])
       /\ g["external_rank"] < h["external_rank"]

\* documents of strictly decreasing priority that share as many words with
\* the query as each other
DecreasingPriorities(docs) ==
    \A i \in 1..(Len(docs) - 1) : RLess(docs[i + 1].priority, docs[i].priority)
SameOverlap(docs, query) ==
    \A i, j \in 1..Len(docs) :
        Cardinality(Words(docs[i].text) \cap Words(query))
            = Cardinality(Words(docs[j].text) \cap Words(query))

\* C19: the external hits of a result are in descending order of score, hits
\* of equal score in the order their documents were given, and their rank in
\* the source counts 1, 2, ... in that order; an external-only request whose
\* documents have decreasing priorities and the same overlap with the query
\* returns them in the order given, and its metadata counts no internal
\* result and one external result per document
C19_ExternalOrder ==
    (last.op = "federated_search") =>
        /\ \A j \in 1..Len(ExternalReturned) :
               ExternalReturned[j]["final_external_rank"] = j
        /\ \A j \in 1..(Len(ExternalReturned) - 1) :
               ExternalBefore(ExternalReturned[j], ExternalReturned[j + 1])
        /\ (/\ ~last.req.use_internal_rag
            /\ DecreasingPriorities(last.req.external_docs)
            /\ SameOverlap(last.req.external_docs, last.req.query))
               => /\ [j \in 1..Len(last.returned) |-> last.returned[j]["id"]]
                     = SliceTo([j \in 1..Len(last.req.external_docs) |->
                                   last.req.external_docs[j].src_id],
                               last.req.k_total)
                  /\ \A j \in 1..Len(last.returned) :
                        /\ last.returned[j]["search_metadata"].internal_results_count = 0
                        /\ last.returned[j]["search_metadata"].external_results_count
                              = Len(last.req.external_docs)

\* an external-only request with two documents of decreasing priority, the
\* same overlap and the same score has been answered with both
C19_Witness ==
    /\ last.op = "federated_search"
    /\ ~last.req.use_internal_rag
    /\ Len(last.req.external_docs) = 2
    /\ DecreasingPriorities(last.req.external_docs)
    /\ SameOverlap(last.req.external_docs, last.req.query)
    /\ Len(ExternalReturned) = 2
    /\ ExternalReturned[1]["score"] = ExternalReturned[2]["score"]

\* C20: the metadata of a search reports personalization exactly when a
\* centroid was found and blended into the query vector, and reports the
\* alpha 0.25 when the caller gave none
C20_TracePersonalizationApplied ==
    (last.op = "federated_search") =>
        \A j \in 1..Len(last.returned) :
            LET search_metadata == last.returned[j]["search_metadata"]
            IN  /\ search_metadata.personalization_enabled = last.personalized
                /\ last.req.personalization_alpha = None
                       => search_metadata.personalization_alpha = DefaultAlpha

\* validate_personalization_alpha with the default range [0, 1]
ClampAlpha(alpha) == Min(Max(alpha, 0), Scale)

\* C25: a personalized search uses the alpha the caller gave, clamped to the
\* range [0, 1], also when it is 0, and the default alpha only when the
\* caller gave none; the metadata reports the alpha used
C25_AlphaClampedNotDefaulted ==
    (/\ last.op = "federated_search"
     /\ last.req.use_internal_rag
     /\ last.req.enable_personalization)
        => /\ last.alpha = IF last.req.personalization_alpha = None
                           THEN DefaultAlpha
                           ELSE ClampAlpha(last.req.personalization_alpha[1])
           /\ \A j \in 1..Len(last.returned) :
                  last.returned[j]["search_metadata"].personalization_alpha
                      = last.alpha

\* a rational in [0, 1]
InUnitInterval(x) == ~RLess(x, RZero) /\ ~RLess(Rat(1, 1), x)

\* C26: every hit of the external scorer has a score in [0, 1] and a
\* text_overlap in [0, 1], and its text_overlap is 0 when the query has no
\* tokens
C26_ExternalScoreInUnitInterval ==
    (last.op = "process_external_docs") =>
        \A j \in 1..Len(last.hits) :
            /\ InUnitInterval(last.hits[j]["score"])
            /\ InUnitInterval(last.hits[j]["text_overlap"])
            /\ last.query = <<>> => last.hits[j]["text_overlap"] = RZero

\* str order on the ids of the model
IdOrder ==
    <<"A", "B", "C", "a", "b", "c", "doc_a_0", "doc_a_1", "doc_a_2", "doc_a_3",
      "doc_a_4", "doc_a_5", "doc_a_6", "doc_a_7">>
IdPos(id) == CHOOSE i \in 1..Len(IdOrder) : IdOrder[i] = id
IdLess(a, b) == IdPos(a) < IdPos(b)

\* the hit was listed by the vector source
InVector(hit) ==
    \E j \in 1..Len(Get(hit, "rank_sources", <<>>)) :
        hit["rank_sources"][j].source = "semantic"

EffectiveScore(hit) ==
    IF hit["source"] = "external" THEN RMul(hit["score"], Rat(12, 10))
    ELSE hit["rrf_score"]
\* external > vector > lexical
OriginPriority(hit) ==
    IF hit["source"] = "external" THEN 3 ELSE IF InVector(hit) THEN 2 ELSE 1

CombinedBefore(a, b) ==
    \/ RLess(EffectiveScore(b), EffectiveScore(a))
    \/ /\ EffectiveScore(a) = EffectiveScore(b)
       /\ \/ OriginPriority(a) > OriginPriority(b)
          \/ /\ OriginPriority(a) = OriginPriority(b)
             /\ IdLess(a["id"], b["id"])

\* C8: when internal and external candidates are combined, the returned hits
\* are in effective-score order (rrf for internal, score * 1.2 for external),
\* ties by origin priority and then by id ascending, with final_rank 1..N
C8_CombinedOrder ==
    (/\ last.op = "federated_search"
     /\ "ephemeral" \in last.sources
     /\ "semantic" \in last.sources)
        => /\ \A i \in 1..Len(last.returned) : last.returned[i]["final_rank"] = i
           /\ \A i, j \in 1..Len(last.returned) :
                  i < j => CombinedBefore(last.returned[i], last.returned[j])

----------------------------------------------------------------------------
(* Properties of the centroid store and its readers *)

\* C3: a lookup for a (tenant, tag) pair returns only a centroid the builder
\* wrote for that same pair, from the store or from the cache
C3_CentroidsStayWithTheirPair ==
    (last.op = "get_centroid" /\ last.centroid # None)
        => last.by = <<last.tenant_id, last.tag>>

\* the lookup of the pair finds nothing now: no fresh cache entry, and the
\* store is unavailable or holds no centroid of the pair
LookupMisses(tenant_id, tag, up) ==
    /\ ~(/\ CacheKey(tenant_id, tag) \in DOMAIN cache
         /\ now - cache[CacheKey(tenant_id, tag)].timestamp < CacheTTL)
    /\ (~up \/ RedisKey(tenant_id, tag) \notin DOMAIN redis)

\* C4: when the lookup misses or the store is unavailable, apply_personalization
\* returns the query vector unchanged and the search runs unpersonalized; no
\* reader writes to the store
C4_MissLeavesQueryUnchanged ==
    [][/\ (/\ last'.op = "apply_personalization"
           /\ LookupMisses(last'.tenant_id, last'.tag, last'.up))
              => (last'.vector = last'.query_vector /\ ~last'.found)
       /\ (/\ last'.op = "federated_search"
           /\ LookupMisses(last'.req.tenant_id, infer_query_tag(last'.req.query), TRUE))
              => ~last'.personalized
       /\ last'.op \in {"get_centroid", "apply_personalization", "federated_search"}
              => redis' = redis]_vars

\* C4 happens: the store holds the centroid of the pair, the read fails, and
\* the query vector comes back as it was
C4_Witness ==
    /\ last.op = "apply_personalization"
    /\ ~last.up
    /\ last.alpha > 0
    /\ RedisKey(last.tenant_id, last.tag) \in DOMAIN redis
    /\ ~last.found
    /\ last.vector = last.query_vector

\* C5: for a unit-norm query vector and alpha in [0, 1] the returned vector is
\* unit-norm, and with alpha = 0 it is the query vector
C5_OutputUnitNorm ==
    (/\ last.op = "apply_personalization"
     /\ IsUnitNorm(last.query_vector)
     /\ last.alpha \in 0..Scale)
        => /\ IsUnitNorm(last.vector)
           /\ (last.alpha = 0 => last.vector = last.query_vector)

\* C10: every centroid the builder stored is unit-norm
C10_StoredCentroidsUnitNorm ==
    \A key \in DOMAIN redis :
        key = RedisKey(redis[key].by[1], redis[key].by[2])
            => IsUnitNorm(FromBuffer(redis[key].data))

\* what the store gives for the pair when nothing is cached
StoreValue(tenant_id, tag, up) ==
    IF up /\ RedisKey(tenant_id, tag) \in DOMAIN redis
    THEN FromBuffer(redis[RedisKey(tenant_id, tag)].data)
    ELSE None

\* C13: clear_cache leaves no cache entry, and the lookup that follows it
\* reads the store and returns the store's value, or nothing when the store
\* has none, in which case the call runs unpersonalized
C13_ClearedCacheReadsStore ==
    /\ last.op = "clear_cache" => cache = EmptyDict
    /\ (last.op = "get_centroid" /\ last.after_clear)
           => /\ last.read
              /\ last.centroid = StoreValue(last.tenant_id, last.tag, last.up)
    /\ (last.op = "apply_personalization" /\ last.after_clear)
           => /\ last.centroid = StoreValue(last.tenant_id, last.tag, last.up)
              /\ last.found = (last.centroid # None)
              /\ ~last.found => last.vector = last.query_vector
    /\ (last.op = "federated_search" /\ last.after_clear)
           => last.personalized
                  = (StoreValue(last.req.tenant_id,
                                infer_query_tag(last.req.query), TRUE) # None)

\* C13 happens: the lookup right after clear_cache fetched the centroid from
\* the store and cached it again
C13_Witness ==
    /\ last.op = "get_centroid"
    /\ last.after_clear
    /\ last.centroid # None
    /\ CacheKey(last.tenant_id, last.tag) \in DOMAIN cache

\* the cache holds an entry for the pair that is younger than _cache_ttl
CacheFresh(tenant_id, tag) ==
    /\ CacheKey(tenant_id, tag) \in DOMAIN cache
    /\ now - cache[CacheKey(tenant_id, tag)].timestamp < CacheTTL

\* C22: a lookup returns the cached centroid without a store read exactly
\* when the cache holds an entry for the pair younger than the cache TTL;
\* otherwise it reads the store once and, when the store gives a value, puts
\* that value and the current time in the entry
C22_CacheHitIffFresh ==
    [][(last'.op = "get_centroid") =>
          LET tenant_id == last'.tenant_id
              tag == last'.tag
              cache_key == CacheKey(tenant_id, tag)
          IN  /\ CacheFresh(tenant_id, tag) = ~last'.read
              /\ CacheFresh(tenant_id, tag)
                     => /\ last'.centroid = cache[cache_key].centroid
                        /\ cache' = cache
              /\ (~CacheFresh(tenant_id, tag)
                     /\ StoreValue(tenant_id, tag, last'.up) # None)
                     => /\ last'.centroid = StoreValue(tenant_id, tag, last'.up)
                        /\ cache_key \in DOMAIN cache'
                        /\ cache'[cache_key].centroid = last'.centroid
                        /\ cache'[cache_key].timestamp = now
                        /\ \A k \in DOMAIN cache \ {cache_key} :
                               k \in DOMAIN cache' /\ cache'[k] = cache[k]
              /\ (~CacheFresh(tenant_id, tag)
                     /\ StoreValue(tenant_id, tag, last'.up) = None)
                     => /\ last'.centroid = None
                        /\ cache' = cache]_vars

\* C22 happens: a lookup found an entry as old as the cache TTL, read the
\* store and put the store's value in the entry with the current time
C22_Witness ==
    /\ last.op = "get_centroid"
    /\ last.expired
    /\ last.read
    /\ last.centroid # None
    /\ cache[CacheKey(last.tenant_id, last.tag)].timestamp = now

\* C23: no entry of the cache is older than the cache TTL (the claim's bound
\* on the number of entries has no counterpart in the cache, a plain dict)
C23_NoEntryOutlivesTTL ==
    \A k \in DOMAIN cache : now - cache[k].timestamp <= CacheTTL

\* the time of the last write of the pair's centroid to the store
UpdatedAt(tenant_id, tag) == redis[MetadataKey(tenant_id, tag)].data.updated_at

ReadsInFlight(tag) ==
    {i \in DOMAIN tasks : tasks[i].pc = "reading" /\ tasks[i].tag = tag}

ValueKeyUntouched(tenant_id, tag) ==
    /\ (RedisKey(tenant_id, tag) \in DOMAIN redis')
           = (RedisKey(tenant_id, tag) \in DOMAIN redis)
    /\ RedisKey(tenant_id, tag) \in DOMAIN redis
           => redis'[RedisKey(tenant_id, tag)] = redis[RedisKey(tenant_id, tag)]

\* the metadata key of the pair is left as it was by the step
MetadataKeyUntouched(tenant_id, tag) ==
    /\ (MetadataKey(tenant_id, tag) \in DOMAIN redis')
           = (MetadataKey(tenant_id, tag) \in DOMAIN redis)
    /\ MetadataKey(tenant_id, tag) \in DOMAIN redis
           => redis'[MetadataKey(tenant_id, tag)] = redis[MetadataKey(tenant_id, tag)]

\* C27: after every step the value key of a pair is in the store exactly
\* when its metadata key is, with the same TTL, and a build that reports a
\* tag as failed has changed neither key of the tag
C27_OnlyCompletedWritePublishes ==
    [][/\ \A i \in 1..Len(TenantTags) :
             LET key == RedisKey("a", TenantTags[i])
                 metadata_key == MetadataKey("a", TenantTags[i])
             IN  /\ (key \in DOMAIN redis') = (metadata_key \in DOMAIN redis')
                 /\ key \in DOMAIN redis' /\ metadata_key \in DOMAIN redis'
                        => redis'[key].ttl = redis'[metadata_key].ttl
       /\ (last'.op = "calculate_and_store_centroids")
              => \A tag \in DOMAIN last'.results :
                     ~last'.results[tag]
                         => /\ ValueKeyUntouched(last'.tenant_id, tag)
                            /\ MetadataKeyUntouched(last'.tenant_id, tag)]_vars

\* C28: when concurrent builder runs for a pair have all finished, the
\* stored vector and the stored metadata of the pair were written by the
\* same run
C28_BuilderRunsSerialize ==
    (/\ DOMAIN tasks # {}
     /\ \A i \in DOMAIN tasks : tasks[i].pc = "done")
        => redis[RedisKey("a", "direito_civil")].by
               = redis[MetadataKey("a", "direito_civil")].by

\* C11: a build of a pair with exactly min_vectors_for_centroid vectors
\* succeeds, and with fewer vectors it aborts and writes nothing
C11_BuildNeedsMinVectors ==
    [][last'.op = "calculate_and_store_centroids" =>
          \A tag \in DOMAIN last'.results :
              /\ Len(last'.index[tag]) = MinVectorsForCentroid
                     => last'.results[tag]
              /\ Len(last'.index[tag]) < MinVectorsForCentroid
                     => /\ ~last'.results[tag]
                        /\ ValueKeyUntouched(last'.tenant_id, tag)]_vars

\* C12: two consecutive builder runs of a tenant leave the same centroid
\* bytes under each of its keys
C12_RebuildIdempotent ==
    [][(/\ last.op = "calculate_and_store_centroids"
        /\ last'.op = "calculate_and_store_centroids"
        /\ last'.tenant_id = last.tenant_id)
           => \A tag \in DOMAIN last'.results :
                  RedisKey(last.tenant_id, tag) \in DOMAIN redis
                      => redis'[RedisKey(last.tenant_id, tag)].data
                             = redis[RedisKey(last.tenant_id, tag)].data]_vars

----------------------------------------------------------------------------
(* Properties of reciprocal_rank_fusion *)

ListIds(l) == {l[i] : i \in 1..Len(l)}
PosIn(l, id) == CHOOSE i \in 1..Len(l) : l[i] = id
HitIds(hits) == {hits[i]["id"] : i \in 1..Len(hits)}
HitPos(hits, id) == CHOOSE i \in 1..Len(hits) : hits[i]["id"] = id

\* the sum over the sources listing id of 1 / (k_rrf + rank in the source)
RrfOf(id, vector, lexical) ==
    RAdd(IF id \in ListIds(vector) THEN Rat(1, RrfK + PosIn(vector, id)) ELSE RZero,
         IF id \in ListIds(lexical) THEN Rat(1, RrfK + PosIn(lexical, id)) ELSE RZero)
SourcesOf(id, vector, lexical) ==
    (IF id \in ListIds(vector) THEN {"semantic"} ELSE {})
    \cup (IF id \in ListIds(lexical) THEN {"lexical"} ELSE {})

\* C6: the fused list has exactly one entry per document of either list, its
\* rrf_score is the sum of 1/(k + rank) over the sources listing it, and it
\* records one contribution per such source
C6_OneEntryPerDocument ==
    last.op \in {"reciprocal_rank_fusion", "both_orders"} =>
        LET ids == ListIds(last.vector) \cup ListIds(last.lexical)
            fused == last.fused
        IN  /\ Len(fused) = Cardinality(ids)
            /\ HitIds(fused) = ids
            /\ \A i \in 1..Len(fused) :
                   LET e == fused[i]
                       from == SourcesOf(e["id"], last.vector, last.lexical)
                   IN  /\ e["rrf_score"] = RrfOf(e["id"], last.vector, last.lexical)
                       /\ Len(e["rank_sources"]) = Cardinality(from)
                       /\ {e["rank_sources"][j].source :
                               j \in 1..Len(e["rank_sources"])} = from

\* C6 happens: one document is in both lists and another in only one
C6_Witness ==
    /\ last.op = "reciprocal_rank_fusion"
    /\ ListIds(last.vector) \cap ListIds(last.lexical) # {}
    /\ ListIds(last.vector) # ListIds(last.lexical)
    /\ Len(last.fused) = Cardinality(ListIds(last.vector) \cup ListIds(last.lexical))

RrfBefore(a, b) ==
    \/ RLess(b["rrf_score"], a["rrf_score"])
    \/ /\ a["rrf_score"] = b["rrf_score"]
       /\ \/ InVector(a) /\ ~InVector(b)
          \/ /\ InVector(a) = InVector(b)
             /\ IdLess(a["id"], b["id"])

\* C7: the fused list is in rrf_score order, ties broken by presence in the
\* vector list and then by lower id
C7_TieBreakOrder ==
    last.op = "reciprocal_rank_fusion" =>
        \A i, j \in 1..Len(last.fused) :
            i < j => RrfBefore(last.fused[i], last.fused[j])

\* C9: exchanging the two source lists keeps the set of fused documents and
\* each document's rrf_score, and changes the order only among equal scores
C9_FusionSymmetric ==
    last.op = "both_orders" =>
        /\ HitIds(last.fused) = HitIds(last.swapped)
        /\ \A d \in HitIds(last.fused) :
               last.fused[HitPos(last.fused, d)]["rrf_score"]
                   = last.swapped[HitPos(last.swapped, d)]["rrf_score"]
        /\ \A i, j \in 1..Len(last.fused) :
               (i < j /\ last.fused[i]["rrf_score"] # last.fused[j]["rrf_score"])
                   => HitPos(last.swapped, last.fused[i]["id"])
                          < HitPos(last.swapped, last.fused[j]["id"])

\* C9 happens: the lists differ, share a document, and the two fusions come
\* out in different orders
C9_Witness ==
    /\ last.op = "both_orders"
    /\ last.vector # last.lexical
    /\ ListIds(last.vector) \cap ListIds(last.lexical) # {}
    /\ [i \in 1..Len(last.fused) |-> last.fused[i]["id"]]
           # [i \in 1..Len(last.swapped) |-> last.swapped[i]["id"]]

----------------------------------------------------------------------------
(* Properties of the paths to the search *)

\* C29: on every path that carries external documents to the search, a
\* batch that fails validation ends the request with an error and is not
\* handed to federated_search
C29_InvalidDocsNeverSearched ==
    (/\ last.op \in {"test_search", "execute_rag"}
     /\ last.docs # <<>>
     /\ ~validate_docs(last.docs).valid)
        => /\ ~last.searched
           /\ last.raised # ""

----------------------------------------------------------------------------
(* Properties of infer_query_tag *)

\* the number of tokens of the query that are keywords of the i-th tag
TokenCount(i, query) ==
    Cardinality({p \in 1..Len(query) : Lower(query[p]) \in TagKeywords[i][2]})

\* the first tag, in declared order, with the highest count
FirstBestTag(query) ==
    CHOOSE i \in 1..Len(TagKeywords) :
        \A j \in 1..Len(TagKeywords) :
            \/ TokenCount(j, query) < TokenCount(i, query)
            \/ (TokenCount(j, query) = TokenCount(i, query) /\ i <= j)

\* C21: tag inference returns the tag whose keywords occur most often among
\* the tokens of the query, the first declared of them on a tie, and the
\* fallback tag direito_civil when no keyword occurs
C21_InferByTokenCount ==
    (last.op = "infer_query_tag") =>
        last.tag = IF \A i \in 1..Len(TagKeywords) : TokenCount(i, last.query) = 0
                   THEN "direito_civil"
                   ELSE TagKeywords[FirstBestTag(last.query)][1]

----------------------------------------------------------------------------
(* Properties of validate_docs *)

\* the characters of docs[lo..hi] together
RECURSIVE CharsOf(_, _, _)
CharsOf(docs, lo, hi) ==
    IF lo > hi THEN 0
    ELSE IF lo = hi THEN docs[lo].chars
    ELSE CharsOf(docs, lo, (lo + hi) \div 2)
         + CharsOf(docs, (lo + hi) \div 2 + 1, hi)

\* C15: validate_docs reports a batch valid exactly when it is non-empty, its
\* src_id values are pairwise distinct, it has at most 50 documents, each
\* text has at most 50 000 characters and all texts together at most 500 000
C15_ValidIffWithinLimits ==
    last.op = "validate_docs" =>
        (last.response.valid
            = (/\ last.docs # <<>>
               /\ \A i, j \in 1..Len(last.docs) :
                      i # j => last.docs[i].src_id # last.docs[j].src_id
               /\ Len(last.docs) <= MaxExternalDocs
               /\ \A i \in 1..Len(last.docs) : last.docs[i].chars <= MaxDocChars
               /\ CharsOf(last.docs, 1, Len(last.docs)) <= MaxTotalChars))

====
